---- MODULE Spec2Model ----
(***************************************************************************)
(* A model of package engine (src/engine/engines.go): the SearchResult     *)
(* lookups, the engine registry, the movieIndex correlation helper used by *)
(* the crawl callbacks, and Movie.MarshalJSON.                              *)
(*                                                                         *)
(* Go strings are modelled in two ways.  Where the code only compares a    *)
(* string as a whole (movie titles) it is a TLA+ string.  Where the code   *)
(* looks inside a string (strings.ToLower, strconv.Atoi, url.URL.String,   *)
(* json.Marshal) it is a sequence of one-unit strings, one per byte or     *)
(* rune, e.g. <<"4", "2">> for "42".                                       *)
(***************************************************************************)
EXTENDS Integers, Sequences, FiniteSets, TLC

VARIABLES
    s,          \* the SearchResult the lookups run on: [Query, Movies]
    ret,        \* what the last lookup call returned
    heap,       \* number of adapter instances constructed so far
    reg,        \* what the last registry call returned
    movies,     \* the working movie slice of one scrape operation
    inflight,   \* the page fetches whose callback has not run yet
    proc,       \* the process: "running", "fatal" (log.Fatal) or "panic"
    last,       \* what the last callback did
    m,          \* the Movie handed to MarshalJSON
    out         \* what MarshalJSON returned

vars == <<s, ret, heap, reg, movies, inflight, proc, last, m, out>>

lookupVars == <<s, ret>>
registryVars == <<heap, reg>>
crawlVars == <<movies, inflight, proc, last>>
jsonVars == <<m, out>>

Nil == "nil"

(***************************************************************************)
(* SearchResult: Titles, GetMovieByTitle, GetIndexFromTitle                *)
(***************************************************************************)

MaxMovies == 3

\* Titles differing only in case, and a year to tell two movies of one title apart.
TitleSet == {"The Matrix", "the matrix", "Up"}
AskedTitles == TitleSet \cup {"", "Heat"}
YearSet == {1999, 2003}

\* The fields of Movie the lookups read or return whole.
MovieSet == [Title : TitleSet, Year : YearSet]

\* Movie{}: the zero value.
ZeroMovie == [Title |-> "", Year |-> 0]

ErrNotFound == "Movie not Found"

SeqsUpTo(S, n) == UNION {[1..k -> S] : k \in 0..n}

\* for _, movie := range s.Movies { titles = append(titles, movie.Title) }
RECURSIVE TitlesFrom(_, _, _)
TitlesFrom(ms, i, titles) ==
    IF i > Len(ms) THEN titles
    ELSE TitlesFrom(ms, i + 1, Append(titles, ms[i].Title))

\* A Titles that drops a title it has already collected.
RECURSIVE TitlesDedup(_, _, _)
TitlesDedup(ms, i, titles) ==
    IF i > Len(ms) THEN titles
    ELSE TitlesDedup(ms, i + 1,
                     IF \E k \in 1..Len(titles) : titles[k] = ms[i].Title
                     THEN titles ELSE Append(titles, ms[i].Title))

TitlesNoDuplicates(sr) == TitlesDedup(sr.Movies, 1, <<>>)

Titles(sr) == TitlesFrom(sr.Movies, 1, <<>>)

\* The range loop of GetMovieByTitle, from position i (1-based) on.
RECURSIVE ScanMovie(_, _, _)
ScanMovie(ms, title, i) ==
    IF i > Len(ms) THEN [movie |-> ZeroMovie, err |-> ErrNotFound]
    ELSE IF ms[i].Title = title THEN [movie |-> ms[i], err |-> Nil]
    ELSE ScanMovie(ms, title, i + 1)

\* A scan that keeps going after a match, so the last match wins.
RECURSIVE ScanMovieLast(_, _, _, _)
ScanMovieLast(ms, title, i, found) ==
    IF i > Len(ms) THEN found
    ELSE ScanMovieLast(ms, title, i + 1,
                       IF ms[i].Title = title
                       THEN [movie |-> ms[i], err |-> Nil] ELSE found)

GetMovieByTitleLastMatch(sr, title) ==
    ScanMovieLast(sr.Movies, title, 1, [movie |-> ZeroMovie, err |-> ErrNotFound])

GetMovieByTitle(sr, title) == ScanMovie(sr.Movies, title, 1)

\* The range loop of GetIndexFromTitle; Go's index is 0-based.
RECURSIVE ScanIndex(_, _, _)
ScanIndex(ms, title, i) ==
    IF i > Len(ms) THEN [index |-> 0, err |-> ErrNotFound]
    ELSE IF ms[i].Title = title THEN [index |-> i - 1, err |-> Nil]
    ELSE ScanIndex(ms, title, i + 1)

\* A scan that keeps going after a match, so the last match wins.
RECURSIVE ScanIndexLast(_, _, _, _)
ScanIndexLast(ms, title, i, found) ==
    IF i > Len(ms) THEN found
    ELSE ScanIndexLast(ms, title, i + 1,
                       IF ms[i].Title = title
                       THEN [index |-> i - 1, err |-> Nil] ELSE found)

GetIndexFromTitleLastMatch(sr, title) ==
    ScanIndexLast(sr.Movies, title, 1, [index |-> 0, err |-> ErrNotFound])

GetIndexFromTitle(sr, title) == ScanIndex(sr.Movies, title, 1)

NoCall == [op |-> "none"]

CallTitles ==
    /\ ret' = [op |-> "Titles", titles |-> Titles(s)]
    /\ UNCHANGED <<s, registryVars, crawlVars, jsonVars>>

\* One caller asking both lookups for the same title.
CallLookups ==
    /\ \E title \in AskedTitles :
         ret' = [op |-> "Lookups", title |-> title,
                 byTitle |-> GetMovieByTitle(s, title),
                 byIndex |-> GetIndexFromTitle(s, title)]
    /\ UNCHANGED <<s, registryVars, crawlVars, jsonVars>>

InitIdleLookup == s = [Query |-> "", Movies |-> <<>>] /\ ret = NoCall
InitIdleRegistry == heap = 0 /\ reg = NoCall
InitIdleCrawl == movies = <<>> /\ inflight = {} /\ proc = "running" /\ last = NoCall
InitIdleJSON == m = Nil /\ out = NoCall

\* Any SearchResult an adapter may have returned, before any lookup.
InitLookup ==
    /\ s \in [Query : {"matrix"}, Movies : SeqsUpTo(MovieSet, MaxMovies)]
    /\ ret = NoCall
    /\ InitIdleRegistry /\ InitIdleCrawl /\ InitIdleJSON

NextLookup == CallTitles \/ CallLookups

SpecLookup == InitLookup /\ [][NextLookup]_vars

\* The positions (1-based) of the movies of s titled title.
Hits(title) == {i \in 1..Len(s.Movies) : s.Movies[i].Title = title}
First(S) == CHOOSE i \in S : \A j \in S : i <= j

\* C1: GetMovieByTitle(t) returns, with no error, the movie at the smallest
\* index whose Title equals t exactly; when there is none (an empty
\* SearchResult included) it returns the Not-Found error.
C1_GetMovieByTitleFirstMatch ==
    ret.op = "Lookups" =>
        IF Hits(ret.title) = {}
        THEN ret.byTitle.err = ErrNotFound
        ELSE /\ ret.byTitle.err = Nil
             /\ ret.byTitle.movie = s.Movies[First(Hits(ret.title))]

\* Two different movies share the asked title and a differently-cased title
\* is also present; the call has returned.
C1_Witness ==
    /\ ret.op = "Lookups"
    /\ \E i, j \in Hits(ret.title) : i < j /\ s.Movies[i] # s.Movies[j]
    /\ ret.title = "The Matrix"
    /\ \E k \in 1..Len(s.Movies) : s.Movies[k].Title = "the matrix" /\ k < First(Hits(ret.title))
    /\ ret.byTitle.err = Nil

\* C2: GetIndexFromTitle(t) and GetMovieByTitle(t) agree: both Not-Found, or
\* the index is the smallest i with Movies[i].Title = t and the movie
\* returned is Movies[i], also when several movies share the title.
C2_LookupsAgree ==
    ret.op = "Lookups" =>
        \/ /\ ret.byIndex.err = ErrNotFound
           /\ ret.byTitle.err = ErrNotFound
           /\ Hits(ret.title) = {}
        \/ /\ ret.byIndex.err = Nil
           /\ ret.byTitle.err = Nil
           /\ Hits(ret.title) # {}
           /\ ret.byIndex.index = First(Hits(ret.title)) - 1
           /\ ret.byTitle.movie = s.Movies[ret.byIndex.index + 1]

\* Several movies share the title and the first is not at index 0.
C2_Witness ==
    /\ ret.op = "Lookups"
    /\ \E i, j \in Hits(ret.title) : i < j /\ s.Movies[i] # s.Movies[j]
    /\ ret.byIndex.err = Nil
    /\ ret.byIndex.index = 1

\* C3: Titles() has the length of Movies and its i-th element is
\* Movies[i].Title, order preserved and duplicates kept; no movies, no titles.
C3_TitlesMirrorMovies ==
    ret.op = "Titles" =>
        /\ Len(ret.titles) = Len(s.Movies)
        /\ \A i \in 1..Len(s.Movies) : ret.titles[i] = s.Movies[i].Title

\* Titles() has run on a result holding one title twice.
C3_Witness ==
    /\ ret.op = "Titles"
    /\ \E i, j \in 1..Len(s.Movies) : i < j /\ s.Movies[i].Title = s.Movies[j].Title
    /\ Len(ret.titles) = MaxMovies

(***************************************************************************)
(* Engine registry: GetEngines, GetEngine                                  *)
(***************************************************************************)

MaxInstances == 6

\* strings.ToLower on one letter; any other unit is left as it is.
LowerOf == [c \in {"N", "E", "T", "A", "I", "J", "F", "Z", "M", "O", "V", "S"} |->
              CASE c = "N" -> "n" [] c = "E" -> "e" [] c = "T" -> "t"
                [] c = "A" -> "a" [] c = "I" -> "i" [] c = "J" -> "j"
                [] c = "F" -> "f" [] c = "Z" -> "z" [] c = "M" -> "m"
                [] c = "O" -> "o" [] c = "V" -> "v" [] c = "S" -> "s"]

UpperOf == [c \in {"n", "e", "t", "a", "i", "j", "f", "z", "m", "o", "v", "s"} |->
              CHOOSE u \in DOMAIN LowerOf : LowerOf[u] = c]

ToLowerUnit(c) == IF c \in DOMAIN LowerOf THEN LowerOf[c] ELSE c

\* strings.ToLower
ToLower(str) == [i \in 1..Len(str) |-> ToLowerUnit(str[i])]

\* The keys GetEngines registers.
KeyNetNaija == <<"n", "e", "t", "n", "a", "i", "j", "a">>
KeyFzMovies == <<"f", "z", "m", "o", "v", "i", "e", "s">>

\* Every way of writing key in upper and lower case.
RECURSIVE CaseVariants(_)
CaseVariants(key) ==
    IF key = <<>> THEN {<<>>}
    ELSE {<<c>> \o rest : c \in {Head(key), UpperOf[Head(key)]},
                          rest \in CaseVariants(Tail(key))}

\* Names that lower-case to no key: unknown, empty, a prefix, padded.
UnknownNames ==
    { <<"d", "o", "e", "s", "n", "o", "t", "e", "x", "i", "s", "t">>,
      <<>>,
      <<"N", "e", "t", "N", "a", "i", "j">>,
      <<"n", "e", "t", "n", "a", "i", "j", "a", " ">>,
      <<"F", "Z">> }

EngineNames == CaseVariants(KeyNetNaija) \cup CaseVariants(KeyFzMovies) \cup UnknownNames

\* The nil Engine interface value.
NilEngine == [kind |-> "nil", id |-> 0]

\* The adapters' constructors: each call builds the h+1'th instance of the process.
NewNetNaijaEngine(h) == [kind |-> "NetNaijaEngine", id |-> h + 1]
NewFzEngine(h) == [kind |-> "FzEngine", id |-> h + 1]

\* A registry built once and handed out again on every call.
GetEnginesCached(h) ==
    [engines |-> (KeyNetNaija :> NewNetNaijaEngine(0)) @@ (KeyFzMovies :> NewFzEngine(1)),
     heap |-> IF h = 0 THEN 2 ELSE h]

\* GetEngines with h instances constructed before the call: the map it
\* returns and the number of instances constructed after it.
GetEngines(h) ==
    [engines |-> (KeyNetNaija :> NewNetNaijaEngine(h)) @@ (KeyFzMovies :> NewFzEngine(h + 1)),
     heap |-> h + 2]

\* Indexing a Go map: the zero value (a nil Engine) for a missing key.
MapIndex(engines, key) == IF key \in DOMAIN engines THEN engines[key] ELSE NilEngine

\* fmt.Errorf("Engine %s Does not exist", engine)
ErrNoEngine(engine) == <<"Engine ", engine, " Does not exist">>

\* A lookup by the name as passed, not lower-cased.
GetEngineCaseSensitive(engine, h) ==
    LET built == GetEngines(h)
        e == MapIndex(built.engines, engine)
    IN  IF e = NilEngine
        THEN [engine |-> NilEngine, err |-> ErrNoEngine(engine), heap |-> built.heap]
        ELSE [engine |-> e, err |-> <<>>, heap |-> built.heap]

\* GetEngine: no error is the empty message.
GetEngine(engine, h) ==
    LET built == GetEngines(h)
        e == MapIndex(built.engines, ToLower(engine))
    IN  IF e = NilEngine
        THEN [engine |-> NilEngine, err |-> ErrNoEngine(engine), heap |-> built.heap]
        ELSE [engine |-> e, err |-> <<>>, heap |-> built.heap]

CallGetEngines ==
    /\ heap + 2 <= MaxInstances
    /\ LET built == GetEngines(heap)
       IN  /\ reg' = [op |-> "GetEngines", before |-> heap, engines |-> built.engines]
           /\ heap' = built.heap
    /\ UNCHANGED <<lookupVars, crawlVars, jsonVars>>

CallGetEngine ==
    /\ heap + 2 <= MaxInstances
    /\ \E name \in EngineNames :
         LET got == GetEngine(name, heap)
         IN  /\ reg' = [op |-> "GetEngine", before |-> heap, name |-> name,
                        engine |-> got.engine, err |-> got.err]
             /\ heap' = got.heap
    /\ UNCHANGED <<lookupVars, crawlVars, jsonVars>>

InitRegistry ==
    /\ InitIdleRegistry
    /\ InitIdleLookup /\ InitIdleCrawl /\ InitIdleJSON

NextRegistry == CallGetEngines \/ CallGetEngine

SpecRegistry == InitRegistry /\ [][NextRegistry]_vars

\* The adapter registered under a key.
KindOf(key) == IF key = KeyNetNaija THEN "NetNaijaEngine" ELSE "FzEngine"
Keys == {KeyNetNaija, KeyFzMovies}

\* C4: GetEngine is case-insensitive: a name whose lower-cased form is a
\* registered key returns that key's adapter and no error, so names equal
\* after lower-casing return the same adapter; any other name returns no
\* engine and the error "Engine <name> Does not exist" with the name as passed.
C4_GetEngineCaseInsensitive ==
    reg.op = "GetEngine" =>
        IF ToLower(reg.name) \in Keys
        THEN /\ reg.err = <<>>
             /\ reg.engine.kind = KindOf(ToLower(reg.name))
        ELSE /\ reg.engine = NilEngine
             /\ reg.err = <<"Engine ", reg.name, " Does not exist">>

\* GetEngine("NetNaija") has returned the NetNaija adapter.
C4_Witness ==
    /\ reg.op = "GetEngine"
    /\ reg.name = <<"N", "e", "t", "N", "a", "i", "j", "a">>
    /\ reg.engine.kind = "NetNaijaEngine"
    /\ reg.err = <<>>

\* The names GetEngine succeeds for, with h instances constructed so far.
Succeeds(h) == {name \in EngineNames : GetEngine(name, h).err = <<>>}

\* C9: every GetEngines call constructs one new instance of each adapter and
\* returns a map keyed by exactly "netnaija" and "fzmovies"; no instance is
\* one an earlier call constructed, and the names GetEngine succeeds for
\* stay the same whatever was called before.
C9_GetEnginesFreshEveryCall ==
    /\ reg.op = "GetEngines" =>
          /\ DOMAIN reg.engines = Keys
          /\ \A k \in Keys : /\ reg.engines[k].kind = KindOf(k)
                             /\ reg.engines[k].id > reg.before
          /\ reg.engines[KeyNetNaija].id # reg.engines[KeyFzMovies].id
          /\ heap = reg.before + 2
    /\ Succeeds(heap) = CaseVariants(KeyNetNaija) \cup CaseVariants(KeyFzMovies)

\* GetEngines has returned after earlier calls had constructed instances.
C9_Witness ==
    /\ reg.op = "GetEngines"
    /\ reg.before >= 4
    /\ DOMAIN reg.engines = Keys

(***************************************************************************)
(* Index correlation: getMovieIndexFromCtx and the callbacks that use it   *)
(***************************************************************************)

MaxSlots == 5
MaxRequests == 1
MaxCtxLen == 2

DigitVal == [c \in {"0", "1", "2", "3", "4", "5", "6", "7", "8", "9"} |->
               CASE c = "0" -> 0 [] c = "1" -> 1 [] c = "2" -> 2 [] c = "3" -> 3
                 [] c = "4" -> 4 [] c = "5" -> 5 [] c = "6" -> 6 [] c = "7" -> 7
                 [] c = "8" -> 8 [] c = "9" -> 9]
Digits == DOMAIN DigitVal
DigitOf(d) == CHOOSE c \in Digits : DigitVal[c] = d

ErrSyntax == "strconv.Atoi: invalid syntax"

\* Atoi's loop over the bytes after the sign: n = n*10 + (ch - '0'), a
\* syntax error at the first byte that is no digit.
RECURSIVE AtoiLoop(_, _, _)
AtoiLoop(body, i, n) ==
    IF i > Len(body) THEN [n |-> n, err |-> Nil]
    ELSE IF body[i] \notin Digits THEN [n |-> 0, err |-> ErrSyntax]
    ELSE AtoiLoop(body, i + 1, n * 10 + DigitVal[body[i]])

\* strconv.Atoi on a string too short to leave the range of int (every
\* string of at most MaxCtxLen + 1 units is): an optional sign, then digits.
Atoi(str) ==
    IF Len(str) = 0 THEN [n |-> 0, err |-> ErrSyntax]
    ELSE LET body == IF str[1] \in {"-", "+"} THEN Tail(str) ELSE str
         IN  IF Len(body) < 1 THEN [n |-> 0, err |-> ErrSyntax]
             ELSE LET r == AtoiLoop(body, 1, 0)
                  IN  IF r.err # Nil THEN r
                      ELSE [n |-> IF str[1] = "-" THEN 0 - r.n ELSE r.n, err |-> Nil]

\* strconv.Itoa, as the request issuer uses it to fill the context.
RECURSIVE ItoaNat(_)
ItoaNat(n) == IF n < 10 THEN <<DigitOf(n)>> ELSE Append(ItoaNat(n \div 10), DigitOf(n % 10))
Itoa(n) == IF n < 0 THEN <<"-">> \o ItoaNat(0 - n) ELSE ItoaNat(n)

\* colly's Context.Get: the empty string for a key that was never put.
CtxGet(ctx, key) == IF key \in DOMAIN ctx THEN ctx[key] ELSE <<>>

NoCtx == [k \in {} |-> <<>>]

\* movieIndex, _ := strconv.Atoi(...): the error dropped, Atoi's 0 returned.
getMovieIndexIgnoringErr(r) ==
    [fatal |-> FALSE, index |-> Atoi(CtxGet(r.ctx, "movieIndex")).n]

\* The context read under another key than the issuer wrote.
getMovieIndexWrongKey(r) ==
    LET got == Atoi(CtxGet(r.ctx, "index"))
    IN  IF got.err # Nil THEN [fatal |-> TRUE, index |-> 0]
        ELSE [fatal |-> FALSE, index |-> got.n]

\* A helper that also refuses a negative index.
getMovieIndexNonNegative(r) ==
    LET got == Atoi(CtxGet(r.ctx, "movieIndex"))
    IN  IF got.err # Nil \/ got.n < 0 THEN [fatal |-> TRUE, index |-> 0]
        ELSE [fatal |-> FALSE, index |-> got.n]

\* getMovieIndexFromCtx: log.Fatal ends the process, so on an error nothing
\* is returned (fatal); otherwise the parsed integer is.
getMovieIndexFromCtx(r) ==
    LET got == Atoi(CtxGet(r.ctx, "movieIndex"))
    IN  IF got.err # Nil THEN [fatal |-> TRUE, index |-> 0]
        ELSE [fatal |-> FALSE, index |-> got.n]

\* A slot of the pre-sized slice nobody has written: writes counts the
\* writes to it, page is the page written last, by the request it came with.
EmptySlot == [writes |-> 0, page |-> -1, by |-> 0]

\* The callback of one completed page fetch, run to completion: it asks the
\* helper for its slot and stores what it scraped in movies[movieIndex].
\* Indexing outside the slice is a run-time panic; nothing is stored.
OnPage ==
    /\ proc = "running"
    /\ \E r \in inflight :
         LET got == getMovieIndexFromCtx(r)
             value == CtxGet(r.ctx, "movieIndex")
         IN  /\ inflight' = inflight \ {r}
             /\ IF got.fatal
                THEN /\ proc' = "fatal"
                     /\ movies' = movies
                     /\ last' = [op |-> "OnPage", id |-> r.id, value |-> value,
                                 fatal |-> TRUE, index |-> 0, wrote |-> FALSE,
                                 before |-> movies]
                ELSE IF got.index < 0 \/ got.index >= Len(movies)
                THEN /\ proc' = "panic"
                     /\ movies' = movies
                     /\ last' = [op |-> "OnPage", id |-> r.id, value |-> value,
                                 fatal |-> FALSE, index |-> got.index, wrote |-> FALSE,
                                 before |-> movies]
                ELSE /\ proc' = proc
                     /\ movies' = [movies EXCEPT ![got.index + 1] =
                                     [writes |-> @.writes + 1, page |-> r.page, by |-> r.id]]
                     /\ last' = [op |-> "OnPage", id |-> r.id, value |-> value,
                                 fatal |-> FALSE, index |-> got.index, wrote |-> TRUE,
                                 before |-> movies]
    /\ UNCHANGED <<lookupVars, registryVars, jsonVars>>

\* The one-to-one assignments of request ids 1..n to slots 0..n-1.
Assignments(n) == {f \in [1..n -> 0..(n - 1)] : \A i, j \in 1..n : f[i] = f[j] => i = j}

\* A scrape of n movies: the slice is pre-sized to n slots and n fetches are
\* in flight, request k for the page of slot f[k], its context holding
\* "movieIndex" = Itoa(f[k]).
InitCrawl ==
    /\ \E n \in 1..MaxSlots : \E f \in Assignments(n) :
         /\ movies = [i \in 1..n |-> EmptySlot]
         /\ inflight = {[id |-> k, page |-> f[k], ctx |-> ("movieIndex" :> Itoa(f[k]))] :
                          k \in 1..n}
    /\ proc = "running"
    /\ last = NoCall
    /\ InitIdleLookup /\ InitIdleRegistry /\ InitIdleJSON

NextCrawl == OnPage

SpecCrawl == InitCrawl /\ [][NextCrawl]_vars

\* C5: with n pre-sized slots and n fetches in flight carrying distinct
\* movieIndex values 0..n-1, in every order of the callbacks slot i is
\* written only by the callback whose request carried movieIndex = i, and
\* once all have run every slot has been written exactly once with that
\* request's page, whatever the order was.
C5_EachSlotWrittenOnceByItsRequest ==
    /\ proc = "running"
    /\ \A i \in 1..Len(movies) :
         /\ movies[i].writes <= 1
         /\ movies[i].writes = 1 => movies[i].page = i - 1
         /\ movies[i].writes = 0 => \E r \in inflight : r.page = i - 1
    /\ (last.op = "OnPage" /\ last.wrote) =>
          /\ last.value = Itoa(last.index)
          /\ movies[last.index + 1].by = last.id
    /\ inflight = {} => \A i \in 1..Len(movies) :
                           movies[i].writes = 1 /\ movies[i].page = i - 1

\* All MaxSlots callbacks have run, the last of them for slot 0, and some
\* request's id is not its slot's position.
C5_Witness ==
    /\ inflight = {}
    /\ Len(movies) = MaxSlots
    /\ \A i \in 1..Len(movies) : movies[i].writes = 1
    /\ \E i \in 1..Len(movies) : movies[i].by # i
    /\ last.op = "OnPage" /\ last.index = 0

\* What a request's context may hold under "movieIndex": nothing, or any
\* string of at most MaxCtxLen units.
CtxUnits == {"0", "1", "9", "-", "+", "x"}
CtxSet == {NoCtx} \cup {("movieIndex" :> v) : v \in SeqsUpTo(CtxUnits, MaxCtxLen)}
CtxSlotCounts == {0, 2}

\* Fetches whose context was filled by anyone, well or badly.
InitCtx ==
    /\ \E n \in CtxSlotCounts : movies = [i \in 1..n |-> EmptySlot]
    /\ \E k \in 1..MaxRequests : \E f \in [1..k -> CtxSet] :
         inflight = {[id |-> i, page |-> i, ctx |-> f[i]] : i \in 1..k}
    /\ proc = "running"
    /\ last = NoCall
    /\ InitIdleLookup /\ InitIdleRegistry /\ InitIdleJSON

SpecCtx == InitCtx /\ [][NextCrawl]_vars

\* A signed decimal integer: an optional sign, then one digit or more.
IsSignedDecimal(str) ==
    /\ Len(str) >= 1
    /\ LET from == IF str[1] \in {"-", "+"} THEN 2 ELSE 1
       IN  /\ from <= Len(str)
           /\ \A i \in from..Len(str) : str[i] \in Digits

RECURSIVE Pow10(_)
Pow10(k) == IF k = 0 THEN 1 ELSE 10 * Pow10(k - 1)

RECURSIVE SumOver(_, _)
SumOver(S, f) == IF S = {} THEN 0
                 ELSE LET x == CHOOSE x \in S : TRUE IN f[x] + SumOver(S \ {x}, f)

\* The integer a signed decimal string denotes, by the weight of each digit.
DecimalValue(str) ==
    LET from == IF str[1] \in {"-", "+"} THEN 2 ELSE 1
        weights == [i \in from..Len(str) |-> DigitVal[str[i]] * Pow10(Len(str) - i)]
        abs == SumOver(from..Len(str), weights)
    IN  IF str[1] = "-" THEN 0 - abs ELSE abs

\* C6: getMovieIndexFromCtx returns the integer encoded in the "movieIndex"
\* context value; when the value is absent (the empty string) or is not a
\* number the helper ends the process and returns nothing, and no slot is
\* written for that request.
C6_FatalOnMissingOrMalformedIndex ==
    last.op = "OnPage" =>
        IF IsSignedDecimal(last.value)
        THEN ~last.fatal /\ last.index = DecimalValue(last.value)
        ELSE /\ last.fatal
             /\ proc = "fatal"
             /\ ~last.wrote
             /\ movies = last.before
             /\ \A i \in 1..Len(movies) : movies[i].by # last.id

\* A callback whose request carried no usable index has run, with slots it
\* could have written.
C6_Witness ==
    /\ last.op = "OnPage"
    /\ last.value \in {<<>>, <<"x">>, <<"1", "x">>, <<"-">>}
    /\ proc = "fatal"
    /\ Len(movies) > 0

\* C10: getMovieIndexFromCtx checks no range: for every context value that
\* is a signed decimal integer, a negative one or one not below the
\* length of the slice included, it returns that integer and does not end
\* the process.
C10_NoRangeCheck ==
    (last.op = "OnPage" /\ IsSignedDecimal(last.value)) =>
        /\ ~last.fatal
        /\ proc # "fatal"
        /\ last.index = DecimalValue(last.value)

\* The helper has returned a negative index, which addresses no slot.
C10_Witness ==
    /\ last.op = "OnPage"
    /\ last.value = <<"-", "1">>
    /\ ~last.fatal
    /\ last.index = -1
    /\ Len(movies) > 0

(***************************************************************************)
(* Movie.MarshalJSON                                                        *)
(***************************************************************************)

MaxLinks == 2

\* One byte that is no valid UTF-8 on its own (0xFF), as a unit of a string,
\* and the rune U+FFFD that stands in for it.
InvalidByte == "xFF"
ReplacementRune == "U+FFFD"

RECURSIVE Flatten(_)
Flatten(parts) == IF parts = <<>> THEN <<>> ELSE Head(parts) \o Flatten(Tail(parts))

\* net/url's escape of one unit of a path or host: letters, digits and '/'
\* stay, anything else becomes %XX.
EscapeUnit(c) ==
    CASE c = " " -> <<"%", "2", "0">>
      [] c = "\"" -> <<"%", "2", "2">>
      [] c = "<" -> <<"%", "3", "C">>
      [] c = InvalidByte -> <<"%", "F", "F">>
      [] OTHER -> <<c>>

Escape(str) == Flatten([i \in 1..Len(str) |-> EscapeUnit(str[i])])

\* (*url.URL).String() of a URL with no Opaque, User or Fragment part:
\* scheme ":" "//" host, a "/" before a relative path after a host, the
\* escaped path, "?" and the raw query as it is.
URLString(u) ==
    LET scheme == IF u.Scheme # <<>> THEN u.Scheme \o <<":">> ELSE <<>>
        authority ==
            IF u.Scheme # <<>> \/ u.Host # <<>>
            THEN (IF u.Host # <<>> \/ u.Path # <<>> THEN <<"/", "/">> ELSE <<>>)
                 \o Escape(u.Host)
            ELSE <<>>
        path == Escape(u.Path)
        slash == IF path # <<>> /\ path[1] # "/" /\ u.Host # <<>> THEN <<"/">> ELSE <<>>
        query == IF u.RawQuery # <<>> THEN <<"?">> \o u.RawQuery ELSE <<>>
    IN  scheme \o authority \o slash \o path \o query

\* encoding/json's rendering of one unit of a string, HTML escaping on as
\* in json.Marshal: an invalid byte is written as the escape \ufffd.
JSONEscapeUnit(c) ==
    CASE c = "\"" -> <<"\\", "\"">>
      [] c = "\\" -> <<"\\", "\\">>
      [] c = "<" -> <<"\\", "u", "0", "0", "3", "c">>
      [] c = ">" -> <<"\\", "u", "0", "0", "3", "e">>
      [] c = "&" -> <<"\\", "u", "0", "0", "2", "6">>
      [] c = InvalidByte -> <<"\\", "u", "f", "f", "f", "d">>
      [] OTHER -> <<c>>

\* A Go string as a JSON string literal.
JSONQuote(str) ==
    <<"\"">> \o Flatten([i \in 1..Len(str) |-> JSONEscapeUnit(str[i])]) \o <<"\"">>

\* The rune a \uXXXX escape names.
RuneOf(hex) ==
    CASE hex = <<"0", "0", "3", "c">> -> "<"
      [] hex = <<"0", "0", "3", "e">> -> ">"
      [] hex = <<"0", "0", "2", "6">> -> "&"
      [] hex = <<"f", "f", "f", "d">> -> ReplacementRune
      [] OTHER -> "U+????"

\* A JSON decoder's reading of the inside of a string literal.
RECURSIVE UnquoteLoop(_, _, _)
UnquoteLoop(body, i, acc) ==
    IF i > Len(body) THEN acc
    ELSE IF body[i] = "\\" /\ i < Len(body)
    THEN IF body[i + 1] = "u" /\ i + 5 <= Len(body)
         THEN UnquoteLoop(body, i + 6, Append(acc, RuneOf(SubSeq(body, i + 2, i + 5))))
         ELSE UnquoteLoop(body, i + 2, Append(acc, body[i + 1]))
    ELSE IF body[i] = InvalidByte
    THEN UnquoteLoop(body, i + 1, Append(acc, ReplacementRune))
    ELSE UnquoteLoop(body, i + 1, Append(acc, body[i]))

\* The Go string a JSON string literal decodes to.
JSONUnquote(text) == UnquoteLoop(SubSeq(text, 2, Len(text) - 1), 1, <<>>)

\* []string: nil, or its elements (a non-nil slice may be empty).
NilSlice == [isNil |-> TRUE, elems |-> <<>>]
SliceOf(elems) == [isNil |-> FALSE, elems |-> elems]

\* append(slice, x): appending to a nil slice makes a slice.
AppendSlice(slice, x) == [isNil |-> FALSE, elems |-> Append(slice.elems, x)]

\* encoding/json on a []string: null for a nil slice, else an array.
JSONStrings(slice) ==
    IF slice.isNil THEN [kind |-> "null", elems |-> <<>>]
    ELSE [kind |-> "array",
          elems |-> [i \in 1..Len(slice.elems) |-> JSONQuote(slice.elems[i])]]

\* json.Marshal(movie) for a MovieJSON: the two string fields of MovieJSON
\* hide the URL fields of the embedded Movie; Title stands for the scalars.
JSONMarshalMovieJSON(movie) ==
    [Title |-> movie.Title,
     DownloadLink |-> JSONQuote(movie.DownloadLink),
     SDownloadLink |-> JSONStrings(movie.SDownloadLink)]

\* The nil *url.URL.
NilURL == [Scheme |-> <<"nil">>, Host |-> <<>>, Path |-> <<>>, RawQuery |-> <<>>]

\* for _, link := range m.SDownloadLink { s = append(s, link.String()) }
RECURSIVE SeriesLinkStrings(_, _, _)
SeriesLinkStrings(links, i, sDownloadLink) ==
    IF i > Len(links) THEN sDownloadLink
    ELSE SeriesLinkStrings(links, i + 1, AppendSlice(sDownloadLink, URLString(links[i])))

\* A loop that puts each link in front of those before it.
RECURSIVE SeriesLinkStringsReversed(_, _, _)
SeriesLinkStringsReversed(links, i, sDownloadLink) ==
    IF i > Len(links) THEN sDownloadLink
    ELSE SeriesLinkStringsReversed(links, i + 1,
             [isNil |-> FALSE, elems |-> <<URLString(links[i])>> \o sDownloadLink.elems])

MarshalJSONSeriesReversed(mv) ==
    IF mv.DownloadLink = NilURL THEN [panic |-> TRUE]
    ELSE [panic |-> FALSE,
          json |-> JSONMarshalMovieJSON(
                     [Title |-> mv.Title,
                      DownloadLink |-> URLString(mv.DownloadLink),
                      SDownloadLink |->
                          SeriesLinkStringsReversed(mv.SDownloadLink.elems, 1, NilSlice)])]

\* (*Movie).MarshalJSON: String() on a nil DownloadLink panics; var
\* sDownloadLink []string starts nil and stays nil when there is no link.
MarshalJSON(mv) ==
    IF mv.DownloadLink = NilURL THEN [panic |-> TRUE]
    ELSE [panic |-> FALSE,
          json |-> JSONMarshalMovieJSON(
                     [Title |-> mv.Title,
                      DownloadLink |-> URLString(mv.DownloadLink),
                      SDownloadLink |->
                          SeriesLinkStrings(mv.SDownloadLink.elems, 1, NilSlice)])]

CallMarshalJSON ==
    /\ out.op = "none"
    /\ LET got == MarshalJSON(m)
       IN  out' = IF got.panic THEN [op |-> "panic"]
                  ELSE [op |-> "MarshalJSON", json |-> got.json]
    /\ UNCHANGED <<m, lookupVars, registryVars, crawlVars>>

\* A client decoding the two URL fields of the object back into strings.
DecodeLinks ==
    /\ out.op = "MarshalJSON"
    /\ out' = [op |-> "Decoded", json |-> out.json,
               DownloadLink |-> JSONUnquote(out.json.DownloadLink),
               SDownloadLink |-> [i \in 1..Len(out.json.SDownloadLink.elems) |->
                                    JSONUnquote(out.json.SDownloadLink.elems[i])]]
    /\ UNCHANGED <<m, lookupVars, registryVars, crawlVars>>

HTTP == <<"h", "t", "t", "p">>
SamplePaths == {<<>>, <<"/", "a">>, <<"a", " ">>}
SampleQueries ==
    { <<>>,
      <<"q", "=", "1">>,
      <<"q", "&", "r">>,
      <<"q", "=", "<", "\"">>,
      <<"\\", "u", "0", "0", "2", "6">>,
      <<"q", "=", InvalidByte>> }

URLSet == [Scheme : {<<>>, HTTP}, Host : {<<>>, <<"h">>},
           Path : SamplePaths, RawQuery : SampleQueries]
EpisodeURLSet == [Scheme : {HTTP}, Host : {<<"h">>},
                  Path : {<<"/", "a">>}, RawQuery : SampleQueries]

\* Any Movie an adapter may hand over: scraped or not, series or not.
InitJSON ==
    /\ m \in [Title : {"Up"},
              DownloadLink : URLSet \cup {NilURL},
              SDownloadLink : {NilSlice} \cup
                  {SliceOf(links) : links \in SeqsUpTo(EpisodeURLSet, MaxLinks)}]
    /\ out = NoCall
    /\ InitIdleLookup /\ InitIdleRegistry /\ InitIdleCrawl

NextJSON == CallMarshalJSON \/ DecodeLinks

SpecJSON == InitJSON /\ [][NextJSON]_vars

ValidUTF8(str) == \A i \in 1..Len(str) : str[i] # InvalidByte

\* Every link of m has a string form that is valid UTF-8.
LinksValidUTF8 ==
    /\ ValidUTF8(URLString(m.DownloadLink))
    /\ \A i \in 1..Len(m.SDownloadLink.elems) : ValidUTF8(URLString(m.SDownloadLink.elems[i]))

\* The decoded fields are the links' string forms, same length, same order.
DecodedIsStringForm ==
    /\ out.DownloadLink = URLString(m.DownloadLink)
    /\ Len(out.SDownloadLink) = Len(m.SDownloadLink.elems)
    /\ \A i \in 1..Len(m.SDownloadLink.elems) :
         out.SDownloadLink[i] = URLString(m.SDownloadLink.elems[i])

\* C7 as stated: for every Movie with a non-nil DownloadLink and a non-empty
\* SDownloadLink, decoding the DownloadLink and SDownloadLink strings of the
\* JSON gives back each link's string form exactly, in the same order.
C7_RoundTripEveryMovie ==
    (out.op = "Decoded" /\ Len(m.SDownloadLink.elems) > 0) => DecodedIsStringForm

\* C7 amended: the same, for every such Movie whose links' string forms are
\* valid UTF-8.
C7_RoundTripValidUTF8 ==
    (out.op = "Decoded" /\ Len(m.SDownloadLink.elems) > 0 /\ LinksValidUTF8)
        => DecodedIsStringForm

\* A series of MaxLinks different episodes, with characters JSON escapes in
\* the links, has been marshalled and decoded.
C7_Witness ==
    /\ out.op = "Decoded"
    /\ Len(m.SDownloadLink.elems) = MaxLinks
    /\ m.SDownloadLink.elems[1] # m.SDownloadLink.elems[MaxLinks]
    /\ m.SDownloadLink.elems[1].RawQuery = <<"q", "=", "<", "\"">>
    /\ m.DownloadLink.RawQuery = <<"q", "&", "r">>
    /\ LinksValidUTF8

\* C8 as stated: when SDownloadLink is nil or empty the JSON either has an
\* empty array for SDownloadLink or leaves the field out.
C8_NoSeriesEmptyArrayOrOmitted ==
    (out.op = "MarshalJSON" /\ Len(m.SDownloadLink.elems) = 0) =>
        \/ out.json.SDownloadLink.kind = "omitted"
        \/ out.json.SDownloadLink.kind = "array" /\ out.json.SDownloadLink.elems = <<>>

====
